---- MODULE Spec2Model ----
(***************************************************************************)
(* The platform-connection orchestrator: the React hook                    *)
(* useConnectionStatus (src/unnamed/part_002).                             *)
(*                                                                         *)
(* The hook's React state (connections, currentIndex, allComplete), its    *)
(* props (platformIds, autoStart, connectPlatform) and the asynchronous    *)
(* activities it leaves in flight (awaited connector calls, settle timers) *)
(* are the state; one action per effect run, promise resolution, timer     *)
(* and caller operation.                                                   *)
(*                                                                         *)
(* Indices are 0-based as in the source: the ledger is a function on       *)
(* 0..n-1.  `attempts` is the log of the sequencer's steps, in start       *)
(* order; an entry stays in the log when done.  `retries` holds retries    *)
(* in flight, `lastRetry` the one that resolved last since the last        *)
(* render.                                                                 *)
(***************************************************************************)
EXTENDS Integers, Sequences, FiniteSets, TLC

\* ---- bounds of the model ----
MaxLen == 3          \* longest platformIds list
MaxRetries == 1      \* retryConnection calls per run
MaxReplace == 1      \* platformIds prop replacements per run

\* ---- values ----
Undefined == "undefined"
NoCreds == "undefined"
CredsSet == {NoCreds, "creds"}
IdName == <<"A", "B", "C", "D", "E", "F">>
NotStarted == 0 - 1

\* The platformIds lists: position i holds its own id or the empty string.
IdLists ==
  UNION { { f \in [0 .. (n - 1) -> {""} \cup {IdName[j] : j \in 1 .. n}] :
              \A i \in 0 .. (n - 1) : f[i] \in {"", IdName[i + 1]} } : n \in 0 .. MaxLen }

VARIABLES
  platformIds,    \* prop: the list the caller passes now
  autoStart,      \* prop
  hasConnector,   \* prop: connectPlatform is supplied
  connections,    \* state: the ledger, 0..n-1 -> [platformId, status]
  currentIndex,   \* state: the cursor
  allComplete,    \* state
  startDeps,      \* deps of the last run of the start effect (<<>>: not run)
  seqDeps,        \* deps of the last run of the sequencer effect (<<>>: not run)
  attempts,       \* log of the sequencer's steps, in start order
  retries,        \* the retries in flight, in call order
  lastRetry,      \* <<the retry that resolved last since the last render>>,
                  \* or <<>>: its index and outcome, whether it was called on
                  \* a complete run, and whether the sequencer's step for
                  \* another record, or for the same one, was awaiting then
  retryCalls,     \* number of retryConnection calls made
  escaped,        \* a rejection left the hook unhandled
  session,        \* number of platformIds replacements so far
  dirty           \* a render is scheduled (state or props changed, or mount)

vars == <<platformIds, autoStart, hasConnector, connections, currentIndex,
          allComplete, startDeps, seqDeps, attempts, retries, lastRetry,
          retryCalls, escaped, session,
          dirty>>

Length(c) == Cardinality(DOMAIN c)

Remove(seq, k) == [j \in 1 .. (Len(seq) - 1) |-> IF j < k THEN seq[j] ELSE seq[j + 1]]

\* Mutant of InitialConnections: the first record starts out connecting.
InitialConnectionsFirstConnecting(ids) ==
  [i \in DOMAIN ids |->
     [platformId |-> ids[i], status |-> IF i = 0 THEN "connecting" ELSE "pending"]]

\* part_002:19-21  platformIds.map((id) => ({ platformId: id, status: 'pending' }))
InitialConnections(ids) ==
  [i \in DOMAIN ids |-> [platformId |-> ids[i], status |-> "pending"]]

\* part_002:104
successCount ==
  Cardinality({i \in DOMAIN connections : connections[i].status = "success"})

\* part_002:36  connections[index]?.platformId
PlatformIdAt(conns, index) ==
  IF index \in DOMAIN conns THEN conns[index].platformId ELSE Undefined

\* Mutant of Falsy: only the empty string is tested, not undefined.
FalsyEmptyOnly(platformId) == platformId = ""

\* part_002:37  !platformId
Falsy(platformId) == platformId = Undefined \/ platformId = ""

\* Mutant of SetStatus: the map without its i === index test.
SetStatusAll(prev, index, status) ==
  [i \in DOMAIN prev |-> [prev[i] EXCEPT !.status = status]]

\* Mutant of SetStatus: the record written is the one at the cursor.
SetStatusAtCursor(prev, index, status) ==
  [i \in DOMAIN prev |->
     IF i = currentIndex THEN [prev[i] EXCEPT !.status = status] ELSE prev[i]]

\* Mutant of SetStatus: an outcome is written only over connecting, so the
\* first of two overlapping attempts to resolve decides the status.
SetStatusFirstWins(prev, index, status) ==
  [i \in DOMAIN prev |->
     IF i = index /\ (status = "connecting" \/ prev[i].status = "connecting")
       THEN [prev[i] EXCEPT !.status = status] ELSE prev[i]]

\* Mutant of SetStatus: the written record is built without the spread
\* of the old one, so its platformId is lost.
SetStatusNoSpread(prev, index, status) ==
  [i \in DOMAIN prev |->
     IF i = index THEN [platformId |-> Undefined, status |-> status] ELSE prev[i]]

\* part_002:39-43, 48-52, 54-58, 70-76
\*   prev.map((c, i) => i === index ? { ...c, status } : c)
SetStatus(prev, index, status) ==
  [i \in DOMAIN prev |->
     IF i = index THEN [prev[i] EXCEPT !.status = status] ELSE prev[i]]

\* Mutant of Settle: the try has no catch.
SettleNoCatch(outcome) ==
  IF outcome = "reject"
    THEN [write |-> "error", escapes |-> TRUE]
    ELSE [write |-> outcome, escapes |-> FALSE]

\* part_002:45-61  try { status = await connectPlatform(..) ; write status }
\*                 catch { write 'error' }
\* what the await's resolution writes, and whether the rejection escapes
Settle(outcome) ==
  IF outcome = "reject"
    THEN [write |-> "error", escapes |-> FALSE]
    ELSE [write |-> outcome, escapes |-> FALSE]

\* Mutant of Outcomes: the fallback's promise is never resolved.
OutcomesFallbackHangs ==
  IF hasConnector THEN {"success", "error", "reject"} ELSE {}

\* The outcomes an awaited attempt can resolve with.
\* part_002:47 (the connector: success, error, or a rejection / exception)
\* part_002:68 (the fallback: success or error)
Outcomes == IF hasConnector THEN {"success", "error", "reject"}
                            ELSE {"success", "error"}

\* The indexes whose sequencer step is awaiting its connector call.
Awaiting ==
  {attempts[a].index : a \in {b \in DOMAIN attempts : attempts[b].phase = "await"}}

\* Mutant of ConnectorArgs: connectPlatform(platformId), the credentials
\* are not forwarded.
ConnectorArgsNoCredentials(conns, index, credentials) ==
  [platformId |-> PlatformIdAt(conns, index), credentials |-> NoCreds]

\* part_002:36, 47  connectPlatform(platformId, credentials): the arguments
\* runConnection(index, credentials) hands to the connector
ConnectorArgs(conns, index, credentials) ==
  [platformId |-> PlatformIdAt(conns, index), credentials |-> credentials]

\* A log entry.  Besides the arguments of the runConnection call (index,
\* creds) and those handed on to the connector (args) it records what held
\* when the call was made: the session, and whether the run was complete.
Entry(by, index, creds, phase, outcome) ==
  [by |-> by, index |-> index, creds |-> creds, phase |-> phase,
   outcome |-> outcome, session |-> session, complete |-> allComplete,
   args |-> ConnectorArgs(connections, index, creds)]

Init ==
  /\ platformIds \in IdLists
  /\ autoStart \in BOOLEAN
  /\ hasConnector \in BOOLEAN
  /\ connections = InitialConnections(platformIds)
  /\ currentIndex = NotStarted
  /\ allComplete = FALSE
  /\ startDeps = <<>>
  /\ seqDeps = <<>>
  /\ attempts = <<>>
  /\ retries = <<>>
  /\ lastRetry = <<>>
  /\ retryCalls = 0
  /\ escaped = FALSE
  /\ session = 0
  /\ dirty = TRUE

\* part_002:30  the start effect's dependency list
StartDeps == <<autoStart>>

\* Mutant of SequencerDeps: the effect depends on the ledger itself.
SequencerDepsWholeLedger == <<currentIndex, connections>>

\* part_002:95  the sequencer effect's dependency list
SequencerDeps == <<currentIndex, Length(connections)>>

\* Mutant of StartGuard: the test that no run has started yet is missing.
StartGuardNoSentinel == autoStart /\ Length(connections) > 0

\* part_002:27  autoStart && currentIndex === -1 && connections.length > 0
StartGuard == autoStart /\ currentIndex = NotStarted /\ Length(connections) > 0

\* part_002:81  currentIndex >= 0 && currentIndex < connections.length
SequencerGuard == currentIndex >= 0 /\ currentIndex < Length(connections)

\* Mutant of RunConnection: the record is not marked connecting.
RunConnectionUnmarked(conns, index) ==
  IF Falsy(PlatformIdAt(conns, index))
    THEN [connections |-> conns, started |-> FALSE]
    ELSE [connections |-> conns, started |-> TRUE]

\* part_002:32-43  the synchronous part of runConnection: the ledger after
\* it, and whether an attempt was started (FALSE: the early return)
RunConnection(conns, index) ==
  IF Falsy(PlatformIdAt(conns, index))
    THEN [connections |-> conns, started |-> FALSE]
    ELSE [connections |-> SetStatus(conns, index, "connecting"),
          started |-> TRUE]

\* Mutant of IsLast: currentIndex < connections.length.
IsLastOffByOne(index) == ~(index < Length(connections))

\* part_002:86  currentIndex < connections.length - 1, negated
IsLast(index) == ~(index < Length(connections) - 1)

\* Mutant of NextIndex: the cursor skips a record.
NextIndexSkip(index) == index + 2

\* part_002:87  setCurrentIndex(currentIndex + 1)
NextIndex(index) == index + 1

\* Mutant of AfterStart: runConnection(currentIndex) is not awaited.
AfterStartNoAwait(started) == "settle"

\* part_002:83  await runConnection(currentIndex): the step waits for the
\* attempt if one was started, and goes on to its timer at once if not
AfterStart(started) == IF started THEN "await" ELSE "settle"

\* Mutant of CursorAfterRetry: the retry moves the cursor to its record.
CursorAfterRetryJump(index) ==
  IF index \in DOMAIN connections THEN index ELSE currentIndex

\* part_002:97-102  retryConnection only calls runConnection: the cursor
\* after retryConnection(index)
CursorAfterRetry(index) == currentIndex

\* A render: React commits the scheduled state and runs each effect whose
\* dependencies changed since its last run (both on mount).
\* part_002:26-30 (start effect), part_002:80-95 (sequencer effect)
Render ==
  /\ dirty
  /\ LET runStart == startDeps # StartDeps
         runSeq == seqDeps # SequencerDeps
         starts == runStart /\ StartGuard
         steps == runSeq /\ SequencerGuard
         r == RunConnection(connections, currentIndex)
     IN /\ startDeps' = StartDeps
        /\ seqDeps' = SequencerDeps
        /\ currentIndex' = IF starts THEN 0 ELSE currentIndex
        /\ connections' = IF steps THEN r.connections ELSE connections
        /\ attempts' =
             IF ~steps THEN attempts
             ELSE Append(attempts,
                         Entry("seq", currentIndex, NoCreds, AfterStart(r.started),
                               IF r.started THEN "pending" ELSE "skipped"))
        /\ dirty' = (starts \/ (steps /\ r.started))
  /\ lastRetry' = <<>>
  /\ UNCHANGED <<platformIds, autoStart, hasConnector, allComplete, retries,
                 retryCalls, escaped, session>>

\* The awaited call of the sequencer's step a resolves with `outcome`; the
\* step goes on to set its settle timer.
\* part_002:47-59 (connector), part_002:64-76 (fallback), part_002:83-90
ResolveSeq(a, outcome) ==
  /\ a \in DOMAIN attempts
  /\ attempts[a].phase = "await"
  /\ outcome \in Outcomes
  /\ LET e == attempts[a]
         s == Settle(outcome)
     IN /\ connections' = IF s.escapes THEN connections
                           ELSE SetStatus(connections, e.index, s.write)
        /\ escaped' = (escaped \/ s.escapes)
        /\ attempts' = [attempts EXCEPT
             ![a].outcome = outcome,
             ![a].phase = IF s.escapes THEN "done" ELSE "settle"]
        /\ dirty' = (dirty \/ ~s.escapes)
  /\ UNCHANGED <<platformIds, autoStart, hasConnector, currentIndex, allComplete,
                 startDeps, seqDeps, retries, lastRetry, retryCalls, session>>

\* The awaited call of the in-flight retry r resolves with `outcome`.
\* part_002:47-59 (connector), part_002:64-76 (fallback)
ResolveRetry(r, outcome) ==
  /\ r \in DOMAIN retries
  /\ outcome \in Outcomes
  /\ LET e == retries[r]
         s == Settle(outcome)
     IN /\ connections' = IF s.escapes THEN connections
                           ELSE SetStatus(connections, e.index, s.write)
        /\ escaped' = (escaped \/ s.escapes)
        /\ lastRetry' = <<[index |-> e.index, outcome |-> outcome,
                           complete |-> e.complete,
                           overlap |-> Awaiting \ {e.index} # {},
                           same |-> e.index \in Awaiting]>>
        /\ retries' = Remove(retries, r)
        /\ dirty' = (dirty \/ ~s.escapes)
  /\ UNCHANGED <<platformIds, autoStart, hasConnector, currentIndex, allComplete,
                 startDeps, seqDeps, attempts, retryCalls, session>>

\* The settle timer of sequencer step a fires.
\* part_002:86-90
TimerFire(a) ==
  /\ a \in DOMAIN attempts
  /\ attempts[a].phase = "settle"
  /\ LET e == attempts[a]
     IN /\ currentIndex' = IF IsLast(e.index) THEN currentIndex
                            ELSE NextIndex(e.index)
        /\ allComplete' = IF IsLast(e.index) THEN TRUE ELSE allComplete
        /\ attempts' = [attempts EXCEPT ![a].phase = "done"]
  /\ dirty' = (dirty \/ currentIndex' # currentIndex \/ allComplete' # allComplete)
  /\ UNCHANGED <<platformIds, autoStart, hasConnector, connections, startDeps,
                 seqDeps, retries, lastRetry, retryCalls, escaped, session>>

\* Mutant of CompleteAfterRetry: the retry re-opens a completed run.
CompleteAfterRetryReopen(index) ==
  IF index \in DOMAIN connections THEN FALSE ELSE allComplete

\* retryConnection never calls setAllComplete: the flag is only ever set,
\* to true, by the timer after the last step.
\* part_002:97-102
CompleteAfterRetry(index) == allComplete

\* The caller calls retryConnection(index, credentials).
\* part_002:97-102
Retry(index, creds) ==
  /\ retryCalls < MaxRetries
  /\ retryCalls' = retryCalls + 1
  /\ currentIndex' = CursorAfterRetry(index)
  /\ allComplete' = CompleteAfterRetry(index)
  /\ LET r == RunConnection(connections, index)
     IN /\ connections' = r.connections
        /\ retries' = IF r.started
                         THEN Append(retries,
                                     Entry("retry", index, creds, "await", "pending"))
                         ELSE retries
        /\ dirty' = (dirty \/ r.started \/ currentIndex' # currentIndex
                        \/ allComplete' # allComplete)
  /\ UNCHANGED <<platformIds, autoStart, hasConnector,
                 startDeps, seqDeps, attempts, lastRetry, escaped, session>>

\* The caller re-renders the hook with another platformIds list.  useState
\* keeps the ledger it was initialised with, and neither effect depends on
\* platformIds.
\* part_002:14-23
ReplacePlatformIds(ids) ==
  /\ session < MaxReplace
  /\ ids # platformIds
  /\ platformIds' = ids
  /\ session' = session + 1
  /\ dirty' = TRUE
  /\ UNCHANGED <<autoStart, hasConnector, connections, currentIndex, allComplete,
                 startDeps, seqDeps, attempts, retries, lastRetry, retryCalls,
                 escaped>>

\* The caller re-renders the hook with the other value of autoStart; the
\* start effect depends on it.
\* part_002:14-30
ToggleAutoStart ==
  /\ autoStart' = ~autoStart
  /\ dirty' = TRUE
  /\ UNCHANGED <<platformIds, hasConnector, connections, currentIndex,
                 allComplete, startDeps, seqDeps, attempts, retries, lastRetry,
                 retryCalls, escaped, session>>

RetryIndexes == (0 - 1) .. Length(connections)

Next ==
  \/ Render
  \/ \E a \in DOMAIN attempts : \E outcome \in Outcomes : ResolveSeq(a, outcome)
  \/ \E r \in DOMAIN retries : \E outcome \in Outcomes : ResolveRetry(r, outcome)
  \/ \E a \in DOMAIN attempts : TimerFire(a)
  \/ \E index \in RetryIndexes : \E creds \in CredsSet : Retry(index, creds)

Spec == Init /\ [][Next]_vars

NextReplace ==
  \/ Next
  \/ \E ids \in IdLists : ReplacePlatformIds(ids)

SpecReplace == Init /\ [][NextReplace]_vars

\* The run the completion claims are about: autoStart, a non-empty list,
\* every awaited call eventually resolving, every timer eventually firing
\* and every scheduled render eventually happening.
FairInit == Init /\ autoStart /\ Length(connections) > 0

Fairness ==
  /\ WF_vars(Render)
  /\ WF_vars(\E a \in DOMAIN attempts : \E outcome \in Outcomes : ResolveSeq(a, outcome))
  /\ WF_vars(\E r \in DOMAIN retries : \E outcome \in Outcomes : ResolveRetry(r, outcome))
  /\ WF_vars(\E a \in DOMAIN attempts : TimerFire(a))

\* The retries of the fair run forward no credentials.
FairNext ==
  \/ Render
  \/ \E a \in DOMAIN attempts : \E outcome \in Outcomes : ResolveSeq(a, outcome)
  \/ \E r \in DOMAIN retries : \E outcome \in Outcomes : ResolveRetry(r, outcome)
  \/ \E a \in DOMAIN attempts : TimerFire(a)
  \/ \E index \in RetryIndexes : Retry(index, NoCreds)

FairSpec == FairInit /\ [][FairNext]_vars /\ Fairness


\* The hook used without a connectPlatform: every attempt takes the
\* fallback of part_002:63-77, a timer of 1.5 to 3 s and a drawn outcome.
FallbackInit == Init /\ ~hasConnector

FallbackSpec == FallbackInit /\ [][FairNext]_vars /\ Fairness

\* The runs in which the caller also changes autoStart between renders;
\* the attempts take the fallback.
NextToggle ==
  \/ FairNext
  \/ ToggleAutoStart

SpecToggle == FallbackInit /\ [][NextToggle]_vars

(***************************************************************************)
(* The claims.                                                             *)
(***************************************************************************)

\* What a delivered outcome is recorded as: a rejection counts as error.
Recorded(outcome) == IF outcome = "reject" THEN "error" ELSE outcome

Resolved == {"success", "error", "reject"}

Connecting == {i \in DOMAIN connections : connections[i].status = "connecting"}

\* C1: the sequencer starts a later step only when every earlier step has
\* had its outcome written and its settle timer has fired, and the later
\* step is for a later record: the steps are never pipelined.
C1_NoPipelining ==
  \A b \in DOMAIN attempts : \A a \in 1 .. (b - 1) :
    /\ attempts[a].phase = "done"
    /\ attempts[a].outcome # "pending"
    /\ attempts[a].index < attempts[b].index

\* The step for record i+1 is awaiting its connector and the step for
\* record i has its outcome written.
C1_Witness ==
  /\ Len(attempts) >= 2
  /\ attempts[2].phase = "await"
  /\ attempts[2].index = attempts[1].index + 1
  /\ attempts[1].outcome \in Resolved
  /\ connections[attempts[1].index].status = Recorded(attempts[1].outcome)
  /\ connections[attempts[2].index].status = "connecting"

\* C2: with autoStart and a non-empty list, when every call resolves and
\* every timer fires, allComplete eventually becomes true, whatever the
\* outcomes and whatever retries are made meanwhile.
C2_EventuallyComplete == <>allComplete

\* A run completed with a failed record, a successful one and a retry.
C2_Witness ==
  /\ allComplete
  /\ retryCalls > 0
  /\ \E a, b \in DOMAIN attempts :
       attempts[a].outcome = "success" /\ attempts[b].outcome \in {"error", "reject"}

\* C3: in a run without retries, once allComplete is true every record's
\* status is the outcome the connector gave for it (a rejection counting as
\* error), and successCount is the number of success outcomes.
C3_FinalStatuses ==
  (hasConnector /\ allComplete /\ retryCalls = 0) =>
    /\ \A i \in DOMAIN connections :
         /\ connections[i].status \in {"success", "error"}
         /\ \E a \in DOMAIN attempts :
              /\ attempts[a].index = i
              /\ connections[i].status = Recorded(attempts[a].outcome)
    /\ successCount =
         Cardinality({a \in DOMAIN attempts : attempts[a].outcome = "success"})

\* C3 for the lists whose ids are all non-empty strings.
C3_FinalStatusesNonEmptyIds ==
  (\A i \in DOMAIN connections : connections[i].platformId # "") => C3_FinalStatuses

\* C4: in a run without retries at most one record is connecting.
C4_OneConnecting == (retryCalls = 0) => Cardinality(Connecting) <= 1

\* The sequencer is on its second step: that record is the one connecting.
C4_Witness ==
  /\ retryCalls = 0
  /\ Len(attempts) >= 2
  /\ attempts[2].phase = "await"
  /\ Connecting = {attempts[2].index}


\* C5: every status write of an attempt changes only the record of that
\* attempt's index: a start writes connecting there, a resolution writes
\* the attempt's own outcome there, and no other record changes, whichever
\* of a sequencer step and a retry resolves first.
C5_WriteIsolation ==
  [][LET changed == {i \in DOMAIN connections : connections'[i] # connections[i]}
         seqStarted ==
           IF Len(attempts') > Len(attempts)
                /\ attempts'[Len(attempts')].outcome # "skipped"
             THEN {attempts'[Len(attempts')].index} ELSE {}
         retryStarted ==
           IF Len(retries') > Len(retries)
             THEN {retries'[Len(retries')].index} ELSE {}
         seqResolved ==
           {a \in DOMAIN attempts :
              attempts[a].phase = "await" /\ attempts'[a].phase # "await"}
         retryResolved ==
           IF Len(retries') < Len(retries) THEN {lastRetry'[1]} ELSE {}
     IN /\ DOMAIN connections' = DOMAIN connections
        /\ changed \subseteq
             seqStarted \cup retryStarted
               \cup {attempts[a].index : a \in seqResolved}
               \cup {r.index : r \in retryResolved}
        /\ \A i \in seqStarted \cup retryStarted :
             connections'[i].status = "connecting"
        /\ \A a \in seqResolved :
             connections'[attempts[a].index].status = Recorded(attempts'[a].outcome)
        /\ \A r \in retryResolved :
             connections'[r.index].status = Recorded(r.outcome)
    ]_vars

\* A retry on record j resolved while the sequencer's step for another
\* record was awaiting; both have resolved, with different outcomes, and
\* each record holds its own attempt's outcome.
C5_Witness ==
  /\ lastRetry # <<>>
  /\ lastRetry[1].overlap
  /\ retries = <<>>
  /\ connections[lastRetry[1].index].status = Recorded(lastRetry[1].outcome)
  /\ \A a \in DOMAIN attempts : attempts[a].phase # "await"
  /\ \E a \in DOMAIN attempts :
       /\ attempts[a].index # lastRetry[1].index
       /\ attempts[a].outcome \in Resolved
       /\ Recorded(attempts[a].outcome) # Recorded(lastRetry[1].outcome)
       /\ connections[attempts[a].index].status = Recorded(attempts[a].outcome)

\* C6: once the platformIds list has been replaced, the late resolution of
\* a sequencer step started before the replacement (its connector call or
\* its settle timer) writes nothing: ledger, cursor and allComplete keep
\* their values.
C6_StaleRunIsolation ==
  [][\A a \in DOMAIN attempts :
       (attempts[a].session < session /\ attempts'[a].phase # attempts[a].phase)
         => UNCHANGED <<connections, currentIndex, allComplete>>
    ]_vars

\* C7: when the connector rejects or throws, the attempt's record becomes
\* error, nothing escapes the hook, and a sequencer step goes on to its
\* settle timer, which advances the cursor or completes the run.
C7_FailuresAbsorbed ==
  [][/\ ~escaped'
     /\ \A a \in DOMAIN attempts :
          /\ (attempts[a].phase = "await" /\ attempts'[a].outcome = "reject")
               => /\ connections'[attempts[a].index].status = "error"
                  /\ attempts'[a].phase = "settle"
          /\ (attempts[a].phase = "settle" /\ attempts[a].outcome = "reject"
                /\ attempts'[a].phase = "done")
               => IF attempts[a].index = Length(connections) - 1
                    THEN allComplete'
                    ELSE currentIndex' = attempts[a].index + 1
     /\ (Len(retries') < Len(retries) /\ lastRetry'[1].outcome = "reject")
          => connections'[lastRetry'[1].index].status = "error"
    ]_vars

\* A rejected sequencer step has advanced the cursor and a rejected retry
\* has resolved; both records are error.
C7_Witness ==
  /\ ~escaped
  /\ lastRetry # <<>>
  /\ lastRetry[1].outcome = "reject"
  /\ connections[lastRetry[1].index].status = "error"
  /\ \E a \in DOMAIN attempts :
       /\ attempts[a].outcome = "reject"
       /\ attempts[a].phase = "done"
       /\ attempts[a].index # lastRetry[1].index
       /\ connections[attempts[a].index].status = "error"
       /\ currentIndex = attempts[a].index + 1

\* C8: on a complete run, a retry of a record in error marks that record
\* connecting and changes nothing else; its resolution with success makes
\* the record success, raises successCount by one and changes nothing
\* else; allComplete stays true throughout.
C8_RetryResurrection ==
  [][allComplete =>
       /\ allComplete'
       /\ Len(retries') > Len(retries) =>
            LET i == retries'[Len(retries')].index
            IN connections[i].status = "error" =>
                 /\ connections' = [connections EXCEPT ![i].status = "connecting"]
                 /\ successCount' = successCount
       /\ (Len(retries') < Len(retries) /\ lastRetry'[1].outcome = "success") =>
            LET i == lastRetry'[1].index
            IN /\ connections' = [connections EXCEPT ![i].status = "success"]
               /\ successCount' =
                    successCount + (IF connections[i].status = "success" THEN 0 ELSE 1)
    ]_vars

\* After a complete run in which a record ended in error, the one retry
\* made, on that record, has resolved with success: the record is success
\* and every other record holds its sequencer outcome.
C8_Witness ==
  /\ allComplete
  /\ retryCalls = 1
  /\ lastRetry # <<>>
  /\ lastRetry[1].complete
  /\ lastRetry[1].outcome = "success"
  /\ Length(connections) = 3
  /\ successCount = 3
  /\ \E a \in DOMAIN attempts :
       /\ attempts[a].index = lastRetry[1].index
       /\ attempts[a].outcome \in {"error", "reject"}

\* C9: the cursor changes only from -1 to 0 and from k to k+1, and neither
\* a retry call nor the resolution of a retry changes it.
C9_CursorMonotone ==
  [][/\ currentIndex' # currentIndex => currentIndex' = currentIndex + 1
     /\ (retryCalls' # retryCalls \/ Len(retries') # Len(retries))
          => currentIndex' = currentIndex
    ]_vars

\* The cursor has advanced and a retry of another record has resolved.
C9_Witness ==
  /\ currentIndex >= 1
  /\ lastRetry # <<>>
  /\ lastRetry[1].index # currentIndex

\* C10: however often the hook re-renders while the step for a cursor
\* position is in flight, that position gets one step: the steps started
\* are those for records 0, 1, ... in order, one each, up to the cursor.
C10_NoDoubleAdvance ==
  /\ \A a \in DOMAIN attempts : attempts[a].index = a - 1
  /\ currentIndex >= 0 => currentIndex \in {Len(attempts) - 1, Len(attempts)}
  /\ currentIndex < 0 => attempts = <<>>

\* The hook has re-rendered after the outcome of the step at the cursor was
\* written, the step's timer is still pending, and no further step has been
\* started.
C10_Witness ==
  /\ ~dirty
  /\ attempts # <<>>
  /\ attempts[Len(attempts)].phase = "settle"
  /\ attempts[Len(attempts)].outcome \in Resolved
  /\ attempts[Len(attempts)].index = currentIndex
  /\ currentIndex >= 1

\* C11: once allComplete has become true it stays true in every later
\* state, whatever step follows: a retry call on any index, a retry
\* resolving with any outcome, a render or a timer.
C11_CompletePermanent == [][allComplete => allComplete']_vars

\* After the run completed, a retry was called and has resolved as a
\* failure, and the flag is still up.
C11_Witness ==
  /\ allComplete
  /\ lastRetry # <<>>
  /\ lastRetry[1].complete
  /\ lastRetry[1].outcome \in {"error", "reject"}

\* C12: for the empty platform id list the ledger is empty, successCount
\* is 0 and allComplete is true immediately, that is at the latest once
\* the effects of the first render have run, with autoStart on.
C12_EmptyListComplete ==
  (Length(platformIds) = 0 /\ autoStart /\ startDeps # <<>>) =>
    /\ Length(connections) = 0
    /\ successCount = 0
    /\ allComplete

\* C13: a retry call whose index is outside the ledger (negative, at or
\* past the ledger's length, or any index on an empty ledger) does nothing:
\* no record changes, the cursor and allComplete stay, the connector is not
\* invoked and nothing is thrown.  Stated on the steps: a retry call never
\* moves the cursor, the flag or the sequencer's log and never throws;
\* when it starts an attempt (the connector is invoked) its index is a
\* record of the ledger; and when it starts none, the ledger and the
\* attempts in flight are unchanged.
C13_OutOfRangeRetryNoOp ==
  [][(retryCalls' # retryCalls) =>
       /\ currentIndex' = currentIndex
       /\ allComplete' = allComplete
       /\ attempts' = attempts
       /\ escaped' = escaped
       /\ lastRetry' = lastRetry
       /\ IF Len(retries') > Len(retries)
            THEN /\ retries'[Len(retries')].index \in DOMAIN connections
                 /\ DOMAIN connections # {}
            ELSE /\ connections' = connections
                 /\ retries' = retries]_vars

\* A retry was called on a ledger whose ids are all non-empty, and every
\* record is still pending with no attempt in flight: the retry's index
\* was out of range.
C13_Witness ==
  /\ retryCalls > 0
  /\ retries = <<>>
  /\ attempts = <<>>
  /\ Length(connections) > 1
  /\ \A i \in DOMAIN connections :
       connections[i].platformId # "" /\ connections[i].status = "pending"

\* The attempts in flight on record i: the sequencer's step awaiting its
\* call, and the retries not yet resolved.
Flights(i) ==
  Cardinality({a \in DOMAIN attempts :
                 attempts[a].index = i /\ attempts[a].phase = "await"})
    + Cardinality({r \in DOMAIN retries : retries[r].index = i})

Edges ==
  {<<"pending", "connecting">>, <<"connecting", "success">>,
   <<"connecting", "error">>, <<"error", "connecting">>,
   <<"success", "connecting">>}

\* Record i has a final status while an attempt on it is still in flight:
\* an attempt that overlapped that one has resolved already.
Overtaken(i) ==
  Flights(i) >= 1 /\ connections[i].status \in {"success", "error"}

\* C14 as stated: in every run, retries at any time and on any index
\* included, a record's status changes only along pending -> connecting,
\* connecting -> success, connecting -> error, error -> connecting and
\* success -> connecting.
C14_StatusEdges ==
  [][\A i \in DOMAIN connections :
       connections'[i].status # connections[i].status =>
         <<connections[i].status, connections'[i].status>> \in Edges]_vars

\* C14 amended: a record's status changes only along those five edges,
\* except that a record with two attempts in flight at once can go straight
\* from success to error or from error to success when the second of them
\* resolves; a record gets into that position only from a state with two
\* attempts in flight on it, and no record ever returns to pending.
C14_StatusEdgesUnlessOverlap ==
  [][\A i \in DOMAIN connections :
       /\ connections'[i].status # connections[i].status =>
            \/ <<connections[i].status, connections'[i].status>> \in Edges
            \/ /\ Overtaken(i)
               /\ connections'[i].status \in {"success", "error"}
       /\ (Overtaken(i)' /\ ~Overtaken(i)) => Flights(i) >= 2]_vars

\* The sequencer's call for a record is still awaited, and a retry of the
\* same record has resolved meanwhile and left the record in error.
C14_Witness ==
  /\ lastRetry # <<>>
  /\ lastRetry[1].index \in Awaiting
  /\ Overtaken(lastRetry[1].index)
  /\ connections[lastRetry[1].index].status = "error"
  /\ retries = <<>>

\* C15: after any sequence of sequencer steps, retries, resolutions and
\* timers the ledger is as long as the platform id list given at
\* construction and the record at each index i still carries the i-th id;
\* a record has no field but its id and its status, so only the status
\* ever changes.
C15_LedgerShape ==
  /\ DOMAIN connections = DOMAIN platformIds
  /\ \A i \in DOMAIN connections :
       /\ DOMAIN connections[i] = {"platformId", "status"}
       /\ connections[i].platformId = platformIds[i]
       /\ connections[i].status \in {"pending", "connecting", "success", "error"}

\* A run over the longest list is complete, a retry made during it has
\* resolved, and every record has a final status.
C15_Witness ==
  /\ allComplete
  /\ Length(connections) = MaxLen
  /\ lastRetry # <<>>
  /\ ~lastRetry[1].complete
  /\ \A i \in DOMAIN connections : connections[i].status \in {"success", "error"}

\* C16: at construction, before any effect has run and before any call,
\* the ledger holds one record per id of the list, in the list's order,
\* every record is pending, allComplete is false and successCount is 0.
C16_Construction ==
  (startDeps = <<>> /\ seqDeps = <<>> /\ retryCalls = 0) =>
    /\ DOMAIN connections = DOMAIN platformIds
    /\ \A i \in DOMAIN connections :
         connections[i] = [platformId |-> platformIds[i], status |-> "pending"]
    /\ ~allComplete
    /\ successCount = 0
    /\ currentIndex = NotStarted

\* The hook has just been constructed over the longest list, one of whose
\* ids is the empty string.
C16_Witness ==
  /\ startDeps = <<>>
  /\ seqDeps = <<>>
  /\ retryCalls = 0
  /\ Length(connections) = MaxLen
  /\ \E i \in DOMAIN connections : connections[i].platformId = ""
  /\ \E i \in DOMAIN connections : connections[i].platformId # ""

\* The status of record i, for any i.
StatusAt(i) ==
  IF i \in DOMAIN connections THEN connections[i].status ELSE "absent"

\* C17: with no connector supplied, a record that an attempt (of the
\* sequencer or of a retry) has set to connecting is eventually set to
\* success or error, and the attempts in flight always eventually have
\* all resolved: no record stays connecting for ever.
C17_FallbackResolves ==
  /\ \A i \in 0 .. (MaxLen - 1) :
       (~hasConnector /\ StatusAt(i) = "connecting")
         ~> (StatusAt(i) \in {"success", "error"})
  /\ []<>(retries = <<>> /\ Awaiting = {})

\* Both outcomes of the fallback have occurred: a sequencer step ended in
\* success and a retry in error, and no record is left connecting.
C17_Witness ==
  /\ ~hasConnector
  /\ \E a \in DOMAIN attempts : attempts[a].outcome = "success"
  /\ lastRetry # <<>>
  /\ lastRetry[1].outcome = "error"
  /\ \E a \in DOMAIN attempts : attempts[a].outcome = "error"
  /\ Connecting = {}
  /\ retries = <<>>

\* Record i has, or has had since its latest start, two attempts in flight
\* at once.
Overlapped(i) == Flights(i) >= 2 \/ Overtaken(i)

C19_ConnectorArguments ==
  hasConnector =>
    /\ \A a \in DOMAIN attempts :
         attempts[a].outcome # "skipped" =>
           /\ attempts[a].index \in DOMAIN connections
           /\ attempts[a].args =
                [platformId |-> connections[attempts[a].index].platformId,
                 credentials |-> NoCreds]
           /\ attempts[a].phase # "done" => attempts[a].index = currentIndex
    /\ \A r \in DOMAIN retries :
         /\ retries[r].index \in DOMAIN connections
         /\ retries[r].args =
              [platformId |-> connections[retries[r].index].platformId,
               credentials |-> retries[r].creds]

\* The sequencer's call for one record and a retry, made with credentials,
\* of another record are both awaited.
C19_Witness ==
  /\ hasConnector
  /\ \E a \in DOMAIN attempts : \E r \in DOMAIN retries :
       /\ attempts[a].phase = "await"
       /\ attempts[a].args.credentials = NoCreds
       /\ retries[r].creds = "creds"
       /\ retries[r].args.credentials = "creds"
       /\ retries[r].args.platformId # attempts[a].args.platformId
       /\ retries[r].args.platformId = platformIds[retries[r].index]

\* The step changes a status and is not a retry call or a retry resolving.
StatusChangedWithoutRetry ==
  /\ \E i \in DOMAIN connections : connections'[i].status # connections[i].status
  /\ retryCalls' = retryCalls
  /\ Len(retries') >= Len(retries)

\* The cursor is put on record 0 only from the sentinel and with autoStart
\* on, it never returns to the sentinel, and the sequencer starts a step
\* for record 0 at most once.
StartsOnce ==
  /\ (currentIndex' # currentIndex /\ currentIndex' = 0) =>
       (autoStart /\ currentIndex = NotStarted)
  /\ currentIndex # NotStarted => currentIndex' # NotStarted
  /\ Cardinality({a \in DOMAIN attempts' : attempts'[a].index = 0}) <= 1

\* C20 as stated: the cursor is set to 0 only when autoStart is true and
\* the cursor is still the sentinel, so a run starts at most once; and
\* while autoStart is false the cursor is at the sentinel, allComplete is
\* not set and a status changes only through retry calls.
C20_AutoStartGate ==
  [][/\ StartsOnce
     /\ ~autoStart' => (currentIndex' = NotStarted /\ ~allComplete')
     /\ ~autoStart => ~StatusChangedWithoutRetry]_vars

\* C20 amended: the cursor is set to 0 only when autoStart is true and the
\* cursor is still the sentinel, so a run starts at most once; and while
\* autoStart is false and no run has started, the cursor stays at the
\* sentinel, allComplete is not set, the sequencer takes no step and a
\* status changes only through retry calls.
C20_AutoStartGateUntilStarted ==
  [][/\ StartsOnce
     /\ (~autoStart /\ currentIndex = NotStarted) =>
          /\ currentIndex' = NotStarted
          /\ ~StatusChangedWithoutRetry
     /\ currentIndex' = NotStarted => (~allComplete' /\ attempts' = <<>>)]_vars

\* autoStart was on and the run started; it has since been turned off and
\* the start effect has run again, and the run goes on: the cursor is past
\* record 0 and that record's call is awaited.
C20_Witness ==
  /\ ~autoStart
  /\ startDeps = <<FALSE>>
  /\ ~dirty
  /\ currentIndex >= 1
  /\ currentIndex \in Awaiting
  /\ connections[0].status \in {"success", "error"}

\* C21: when every platform id is a non-empty string, in every state in
\* which allComplete is true the cursor is at the last index of the
\* ledger, no record is pending, the sequencer has made a step for every
\* record, and a record that is connecting has a retry in flight.
C21_CompleteMeansAllAttempted ==
  (allComplete /\ \A i \in DOMAIN connections : connections[i].platformId # "") =>
    /\ currentIndex = Length(connections) - 1
    /\ \A i \in DOMAIN connections :
         /\ connections[i].status # "pending"
         /\ \E a \in DOMAIN attempts :
              attempts[a].index = i /\ attempts[a].outcome # "skipped"
         /\ connections[i].status = "connecting" =>
              \E r \in DOMAIN retries : retries[r].index = i
    /\ Awaiting = {}

\* The run over the longest list is complete, one record ended in error,
\* and a retry of an earlier record is in flight: that record is the only
\* one connecting.
C21_Witness ==
  /\ allComplete
  /\ Length(connections) = MaxLen
  /\ \A i \in DOMAIN connections : connections[i].platformId # ""
  /\ \E i \in DOMAIN connections : connections[i].status = "error"
  /\ \E r \in DOMAIN retries :
       /\ retries[r].index < currentIndex
       /\ retries[r].complete
       /\ Connecting = {retries[r].index}

\* The sequencer's steps of the log that invoked the connector for record i.
Invocations(i) ==
  {a \in DOMAIN attempts : attempts[a].index = i /\ attempts[a].outcome # "skipped"}

\* The sequencer's steps are for the records 0, 1, 2, ... in that order,
\* one step each, and allComplete is set once: by the timer of the step
\* for the last record, that step's call having resolved, and only when
\* the flag is still down.
InOrderCompleteOnce ==
  /\ \A a \in DOMAIN attempts' : attempts'[a].index = a - 1
  /\ (allComplete' /\ ~allComplete) =>
       \E a \in DOMAIN attempts :
         /\ a = Len(attempts)
         /\ attempts[a].index = Length(connections) - 1
         /\ attempts[a].phase = "settle"
         /\ attempts'[a].phase = "done"
  /\ \A a \in DOMAIN attempts :
       (attempts[a].phase = "settle" /\ attempts'[a].phase = "done"
          /\ IsLast(attempts[a].index)) => (~allComplete /\ allComplete')
  /\ allComplete' =>
       /\ Len(attempts') = Length(connections)
       /\ \A a \in DOMAIN attempts' : attempts'[a].phase = "done"

\* What C22 says of a step of a run with autoStart and a connector.
OncePerRecordInOrder ==
  (autoStart /\ hasConnector) =>
    /\ InOrderCompleteOnce
    /\ \A i \in DOMAIN connections : Cardinality(Invocations(i)') <= 1
    /\ allComplete' =>
         \A i \in DOMAIN connections :
           /\ Cardinality(Invocations(i)') = 1
           /\ \A a \in Invocations(i)' : attempts'[a].outcome \in Resolved

\* C22: in a run with autoStart and a connector whose calls all resolve,
\* the sequencer, retries aside, invokes the connector exactly once for
\* each record of the ledger, in the order 0, 1, ..., n-1, and sets
\* allComplete exactly once, after the attempt for the last record.
C22_OncePerRecordInOrder == [][OncePerRecordInOrder]_vars

\* C22 for the lists whose ids are all non-empty strings.
C22_OncePerRecordNonEmptyIds ==
  [][(\A i \in DOMAIN connections : connections[i].platformId # "") =>
       OncePerRecordInOrder]_vars

\* C22 for those lists, the progress half: with autoStart and a connector
\* the run gets to the state in which every record has had its
\* invocation and allComplete is set.
C22_EventuallyAllInvoked ==
  <>(hasConnector =>
       /\ allComplete
       /\ \A i \in DOMAIN connections :
            connections[i].platformId # "" => Cardinality(Invocations(i)) = 1)

====
